---- MODULE Spec2Model ----
(***************************************************************************)
(* A model of the result post-processing scripts of repart-kv:             *)
(*   results/aggregate_results.py          (summary pipeline)              *)
(*   results/aggregate_throughput_time.py  (time-series pipeline)          *)
(*                                                                         *)
(* Python strings are sequences of one-character strings, so that split,   *)
(* rsplit, strip, replace, int() and float() are computed character by     *)
(* character.  Python floats are modelled by exact rationals [n, d] in      *)
(* lowest terms (IEEE rounding of sums and quotients is not modelled);     *)
(* round(x, 1) is modelled exactly, including the binary representation    *)
(* error of time_ms / 1000.0 that decides the x.x5 cases.                   *)
(***************************************************************************)
EXTENDS Integers, Sequences, FiniteSets, TLC

VARIABLES
    cfg,            \* name check: the configuration being encoded
    fname,          \* name check: the encoded file name
    parsed,         \* name check: result of parse_filename (summary script)
    tt_parsed,      \* name check: result of parse_filename (time-series script)
    csv_lines,      \* metrics check: f.readlines() of the run CSV
    metrics,        \* metrics check: result of calculate_metrics
    input_dir,      \* pipelines: file name -> file content
    files,          \* pipelines: the filtered os.listdir result, in listing order
    pc,             \* pipelines: position of main
    idx,            \* pipelines: index of the current loop iteration
    results,        \* summary: experiment_key -> list of metrics (insertion ordered)
    metadata,       \* summary: experiment_key -> params
    grouped_throughput, \* summary: output_key -> rows (insertion ordered)
    grouped_makespan,   \* summary: output_key -> rows (insertion ordered)
    throughput_out, \* summary: files written under throughput/
    makespan_out,   \* summary: files written under makespan/
    prev_out,       \* summary: the output files of the previous run of main
    config_groups,  \* time series: config_key -> list of (f, params)
    fidx,           \* time series: index into the current config's file_list
    data,           \* time series: result of the last process_file call
    time_points,    \* time series: elapsed_s -> entries of the current config
    chart_data,     \* time series: chart_key -> aggregated rows
    chart_out       \* time series: files written to output_dir

nameVars == <<cfg, fname, parsed, tt_parsed>>
metricVars == <<csv_lines, metrics>>
dirVars == <<input_dir, files, pc, idx>>
summaryVars == <<results, metadata, grouped_throughput, grouped_makespan,
                 throughput_out, makespan_out, prev_out>>
seriesVars == <<config_groups, fidx, data, time_points, chart_data, chart_out>>
vars == <<nameVars, metricVars, dirVars, summaryVars, seriesVars>>

None == [tag |-> "None"]
ValueError == [tag |-> "ValueError"]

(***************************************************************************)
(* Characters and Python string primitives                                 *)
(***************************************************************************)
DigitChars == <<"0", "1", "2", "3", "4", "5", "6", "7", "8", "9">>

IsDigit(c) == \E k \in 1..10 : DigitChars[k] = c

DigitVal(c) == (CHOOSE k \in 1..10 : DigitChars[k] = c) - 1

\* the value of a non-empty run of decimal digits
RECURSIVE DigitsVal(_)
DigitsVal(s) ==
    IF s = <<>> THEN 0
    ELSE 10 * DigitsVal(SubSeq(s, 1, Len(s) - 1)) + DigitVal(s[Len(s)])

AllDigits(s) == \A k \in 1..Len(s) : IsDigit(s[k])

\* str(n) of a Python int
RECURSIVE NatStr(_)
NatStr(n) ==
    IF n < 10 THEN <<DigitChars[n + 1]>>
    ELSE NatStr(n \div 10) \o <<DigitChars[(n % 10) + 1]>>

IntStr(n) == IF n < 0 THEN <<"-">> \o NatStr(-n) ELSE NatStr(n)

\* s.strip(): leading and trailing whitespace removed
RECURSIVE LStrip(_)
LStrip(s) == IF s # <<>> /\ s[1] = " " THEN LStrip(Tail(s)) ELSE s

RECURSIVE RStrip(_)
RStrip(s) ==
    IF s # <<>> /\ s[Len(s)] = " " THEN RStrip(SubSeq(s, 1, Len(s) - 1)) ELSE s

Strip(s) == LStrip(RStrip(s))

\* s.lower() on the modelled alphabet
Lower(s) == [k \in 1..Len(s) |-> IF s[k] = "X" THEN "x" ELSE s[k]]

\* s.replace('.', '')
RECURSIVE RemoveDots(_)
RemoveDots(s) ==
    IF s = <<>> THEN <<>>
    ELSE IF s[1] = "." THEN RemoveDots(Tail(s))
    ELSE <<s[1]>> \o RemoveDots(Tail(s))

\* s.split(sep) for a two-character separator: leftmost, non-overlapping
RECURSIVE SplitFrom(_, _, _, _)
SplitFrom(s, c1, c2, k) ==
    IF k >= Len(s) THEN <<s>>
    ELSE IF s[k] = c1 /\ s[k + 1] = c2
         THEN <<SubSeq(s, 1, k - 1)>>
                  \o SplitFrom(SubSeq(s, k + 2, Len(s)), c1, c2, 1)
         ELSE SplitFrom(s, c1, c2, k + 1)

Split2(s, c1, c2) == SplitFrom(s, c1, c2, 1)

\* s.split(c) for a one-character separator
RECURSIVE SplitChar(_, _, _)
SplitChar(s, c, k) ==
    IF k > Len(s) THEN <<s>>
    ELSE IF s[k] = c
         THEN <<SubSeq(s, 1, k - 1)>> \o SplitChar(SubSeq(s, k + 1, Len(s)), c, 1)
         ELSE SplitChar(s, c, k + 1)

\* the greatest index of character c in s, 0 when there is none
LastIndex(s, c) ==
    IF \E k \in 1..Len(s) : s[k] = c
    THEN CHOOSE k \in 1..Len(s) : s[k] = c /\ \A m \in (k + 1)..Len(s) : s[m] # c
    ELSE 0

\* filename.rsplit('.', 1)[0]
RSplitDot(s) ==
    LET k == LastIndex(s, ".") IN IF k = 0 THEN s ELSE SubSeq(s, 1, k - 1)

EndsWith(s, suffix) ==
    /\ Len(s) >= Len(suffix)
    /\ SubSeq(s, Len(s) - Len(suffix) + 1, Len(s)) = suffix

Contains(s, c) == \E k \in 1..Len(s) : s[k] = c

\* digits with single underscores between them, as int() and float() accept
DigitGroups(s) ==
    /\ s # <<>>
    /\ IsDigit(s[1])
    /\ IsDigit(s[Len(s)])
    /\ \A k \in 1..Len(s) : IsDigit(s[k]) \/ s[k] = "_"
    /\ \A k \in 1..(Len(s) - 1) : ~(s[k] = "_" /\ s[k + 1] = "_")

RECURSIVE RemoveUnderscores(_)
RemoveUnderscores(s) ==
    IF s = <<>> THEN <<>>
    ELSE IF s[1] = "_" THEN RemoveUnderscores(Tail(s))
    ELSE <<s[1]>> \o RemoveUnderscores(Tail(s))

\* mutant: text that is no number is read as 0
PyIntLenient(s) ==
    LET t == Strip(s)
        signed == t # <<>> /\ t[1] \in {"-", "+"}
        body == IF signed THEN Tail(t) ELSE t
    IN  [tag |-> "int",
         val |-> IF ~DigitGroups(body) THEN 0
                 ELSE (IF signed /\ t[1] = "-" THEN -1 ELSE 1)
                          * DigitsVal(RemoveUnderscores(body))]

\* int(s) of a str: ValueError, or [tag |-> "int", val |-> n]
PyInt(s) ==
    LET t == Strip(s)
        signed == t # <<>> /\ t[1] \in {"-", "+"}
        body == IF signed THEN Tail(t) ELSE t
    IN  IF ~DigitGroups(body) THEN ValueError
        ELSE [tag |-> "int",
              val |-> (IF signed /\ t[1] = "-" THEN -1 ELSE 1)
                          * DigitsVal(RemoveUnderscores(body))]

(***************************************************************************)
(* parse_filename                                                          *)
(***************************************************************************)
\* re.search(r'\((\d+)\)$', name): 0 when there is no match, else match.start()
\* (1-based).  The digits between hold no '(', so a match starts at the last '('.
RepMatchStart(name) ==
    LET k == LastIndex(name, "(") IN
    IF /\ k # 0
       /\ name # <<>>
       /\ name[Len(name)] = ")"
       /\ k + 1 <= Len(name) - 1
       /\ AllDigits(SubSeq(name, k + 1, Len(name) - 1))
    THEN k ELSE 0

\* mutant: paths read from the interval position (a copy-paste index slip)
FieldIndexPathsSlip ==
    [workload |-> 1, workers |-> 2, storage_type |-> 3, partitions |-> 4,
     storage_engine |-> 5, paths |-> 7, interval |-> 7]

\* the position of each field in parts
FieldIndex ==
    [workload |-> 1, workers |-> 2, storage_type |-> 3, partitions |-> 4,
     storage_engine |-> 5, paths |-> 6, interval |-> 7]

\* the fields both scripts' parse_filename compute; "None", "ValueError" or "ok"
ParseCommon(filename) ==
    LET name == RSplitDot(filename)
        start == RepMatchStart(name)
    IN  IF start = 0 THEN None
        ELSE LET rep == DigitsVal(SubSeq(name, start + 1, Len(name) - 1))
                 name_no_rep == SubSeq(name, 1, start - 1)
                 parts == Split2(name_no_rep, "_", "_")
             IN  IF Len(parts) # 7 THEN None
                 ELSE LET workers == PyInt(parts[FieldIndex.workers])
                          partitions == PyInt(parts[FieldIndex.partitions])
                          paths == PyInt(parts[FieldIndex.paths])
                          interval == PyInt(parts[FieldIndex.interval])
                      IN  IF \E v \in {workers, partitions, paths, interval} :
                                 v.tag = "ValueError"
                          THEN ValueError
                          ELSE [tag |-> "ok",
                                workload |-> parts[FieldIndex.workload],
                                workers |-> workers.val,
                                storage_type |-> parts[FieldIndex.storage_type],
                                partitions |-> partitions.val,
                                storage_engine |-> parts[FieldIndex.storage_engine],
                                paths |-> paths.val,
                                interval |-> interval.val,
                                rep |-> rep,
                                key |-> name_no_rep,
                                workers_str |-> parts[FieldIndex.workers]]

\* aggregate_results.py
parse_filename(filename) ==
    LET p == ParseCommon(filename) IN
    IF p.tag # "ok" THEN p
    ELSE [tag |-> "ok", workload |-> p.workload, workers |-> p.workers,
          storage_type |-> p.storage_type, partitions |-> p.partitions,
          storage_engine |-> p.storage_engine, paths |-> p.paths,
          interval |-> p.interval, rep |-> p.rep, key |-> p.key]

\* aggregate_throughput_time.py
tt_parse_filename(filename) ==
    LET p == ParseCommon(filename) IN
    IF p.tag # "ok" THEN p
    ELSE [tag |-> "ok", workload |-> p.workload, workers |-> p.workers,
          storage_type |-> p.storage_type, partitions |-> p.partitions,
          storage_engine |-> p.storage_engine, paths |-> p.paths,
          interval |-> p.interval, rep |-> p.rep, config_key |-> p.key,
          chart_key |-> p.workload \o <<"_", "_">> \o p.storage_engine
                            \o <<"_", "_">> \o p.workers_str]

(***************************************************************************)
(* Numbers: float(s) and exact rationals                                   *)
(***************************************************************************)
\* float(s) of a str without '.', exponent, inf or nan (the callers remove
\* the dots first): ValueError, or [tag |-> "float", val |-> n]
PyFloat(s) ==
    LET t == Strip(s)
        signed == t # <<>> /\ t[1] \in {"-", "+"}
        body == IF signed THEN Tail(t) ELSE t
    IN  IF ~DigitGroups(body) THEN ValueError
        ELSE [tag |-> "float",
              val |-> (IF signed /\ t[1] = "-" THEN -1 ELSE 1)
                          * DigitsVal(RemoveUnderscores(body))]

Abs(n) == IF n < 0 THEN -n ELSE n

RECURSIVE Gcd(_, _)
Gcd(a, b) == IF b = 0 THEN a ELSE Gcd(b, a % b)

\* the rational n / d (d # 0) in lowest terms with a positive denominator
Frac(n, d) ==
    LET g == Gcd(Abs(n), Abs(d))
        sgn == IF d < 0 THEN -1 ELSE 1
    IN  [n |-> sgn * (n \div g), d |-> sgn * (d \div g)]

FracAdd(a, b) == Frac(a.n * b.d + b.n * a.d, a.d * b.d)

FracDivInt(a, k) == Frac(a.n, a.d * k)

FracLess(a, b) == a.n * b.d < b.n * a.d

\* sum(...) of a list of rationals
RECURSIVE FracSum(_)
FracSum(seq) ==
    IF seq = <<>> THEN Frac(0, 1)
    ELSE FracAdd(FracSum(SubSeq(seq, 1, Len(seq) - 1)), seq[Len(seq)])

(***************************************************************************)
(* calculate_metrics (aggregate_results.py)                                *)
(***************************************************************************)
\* mutant: the milliseconds are not converted to seconds
OpsPerSecondPerMs(executed_count, elapsed_ms) == Frac(executed_count, elapsed_ms)

\* executed_count / (elapsed_ms / 1000.0)
OpsPerSecond(executed_count, elapsed_ms) == Frac(executed_count * 1000, elapsed_ms)

\* elapsed_ms / 1000.0
MakespanS(elapsed_ms) == Frac(elapsed_ms, 1000)

\* mutant: only a zero elapsed time is rejected
ElapsedRejectedZeroOnly(elapsed_ms) == elapsed_ms = 0

\* if elapsed_ms <= 0: return None
ElapsedRejected(elapsed_ms) == elapsed_ms <= 0

\* A file is [readable, lines]: lines is f.readlines() without the line
\* terminators (strip() removes them); open() or read raising is readable = FALSE.
calculate_metrics(file) ==
    IF ~file.readable THEN None
    ELSE LET lines == file.lines IN
    IF Len(lines) < 2 THEN None
    ELSE LET final == Strip(lines[Len(lines)]) IN
    IF final = <<>> /\ Len(lines) < 3 THEN None
    ELSE LET last_line == IF final = <<>> THEN Strip(lines[Len(lines) - 1]) ELSE final
             parts == SplitChar(last_line, ",", 1)
         IN
    IF Len(parts) < 2 THEN None
    ELSE LET elapsed_ms == PyFloat(RemoveDots(parts[1]))
             executed_count == PyFloat(RemoveDots(parts[2]))
         IN
    IF elapsed_ms.tag = "ValueError" \/ executed_count.tag = "ValueError" THEN None
    ELSE IF ElapsedRejected(elapsed_ms.val) THEN None
    ELSE [tag |-> "ok",
          ops_per_second |-> OpsPerSecond(executed_count.val, elapsed_ms.val),
          makespan_s |-> MakespanS(elapsed_ms.val)]

(***************************************************************************)
(* Insertion-ordered dicts: sequences of [key, val]                        *)
(***************************************************************************)
DictKeys(d) == {d[k].key : k \in DOMAIN d}

DictIndex(d, key) == CHOOSE k \in DOMAIN d : d[k].key = key

DictGet(d, key) == d[DictIndex(d, key)].val

\* d[key].append(item) on a defaultdict(list)
DictAppend(d, key, item) ==
    IF key \in DictKeys(d)
    THEN [d EXCEPT ![DictIndex(d, key)].val = Append(@, item)]
    ELSE Append(d, [key |-> key, val |-> <<item>>])

\* d[key].extend(items) on a defaultdict(list)
DictExtend(d, key, items) ==
    IF key \in DictKeys(d)
    THEN [d EXCEPT ![DictIndex(d, key)].val = @ \o items]
    ELSE Append(d, [key |-> key, val |-> items])

\* if key not in d: d[key] = value
DictSetDefault(d, key, value) ==
    IF key \in DictKeys(d) THEN d ELSE Append(d, [key |-> key, val |-> value])

(***************************************************************************)
(* Ordering of str and of sort keys                                        *)
(***************************************************************************)
\* the modelled characters in code-point order
CodePointOrder ==
    <<" ", "(", ")", "+", ",", "-", ".",
      "0", "1", "2", "3", "4", "5", "6", "7", "8", "9",
      "X", "_", "a", "b", "c", "e", "n", "r", "s", "t", "v", "x">>

Ord(c) == CHOOSE k \in DOMAIN CodePointOrder : CodePointOrder[k] = c

\* a < b for str
RECURSIVE StrLess(_, _)
StrLess(a, b) ==
    IF b = <<>> THEN FALSE
    ELSE IF a = <<>> THEN TRUE
    ELSE IF a[1] # b[1] THEN Ord(a[1]) < Ord(b[1])
    ELSE StrLess(Tail(a), Tail(b))

\* mutant: workers compared as the text of the file name
SortKeyLessWorkersText(x, y) ==
    \/ StrLess(IntStr(x.workers), IntStr(y.workers))
    \/ /\ x.workers = y.workers
       /\ \/ StrLess(x.storage_type, y.storage_type)
          \/ x.storage_type = y.storage_type /\ x.partitions < y.partitions

\* key(x) < key(y) for key = lambda x: (x['workers'], x['storage_type'],
\* x['partitions'])
SortKeyLess(x, y) ==
    \/ x.workers < y.workers
    \/ /\ x.workers = y.workers
       /\ \/ StrLess(x.storage_type, y.storage_type)
          \/ x.storage_type = y.storage_type /\ x.partitions < y.partitions

\* x inserted into the sorted list after every element whose key is not greater
RECURSIVE SortedInsert(_, _)
SortedInsert(sorted_list, x) ==
    IF sorted_list = <<>> THEN <<x>>
    ELSE IF SortKeyLess(x, sorted_list[Len(sorted_list)])
         THEN Append(SortedInsert(SubSeq(sorted_list, 1, Len(sorted_list) - 1), x),
                     sorted_list[Len(sorted_list)])
         ELSE Append(sorted_list, x)

\* sorted(data_list, key=...): a stable sort
RECURSIVE Sorted(_)
Sorted(data_list) ==
    IF data_list = <<>> THEN <<>>
    ELSE SortedInsert(Sorted(SubSeq(data_list, 1, Len(data_list) - 1)),
                      data_list[Len(data_list)])

(***************************************************************************)
(* main (aggregate_results.py)                                             *)
(***************************************************************************)
\* f.endswith('.csv') and '(' in f
Listed(f) == EndsWith(f, <<".", "c", "s", "v">>) /\ Contains(f, "(")

\* all orders os.listdir may return the set S in
RECURSIVE Orders(_)
Orders(S) ==
    IF S = {} THEN {<<>>}
    ELSE UNION {{<<x>> \o q : q \in Orders(S \ {x})} : x \in S}

\* files = [f for f in os.listdir(input_dir) if ...]
ListDir ==
    /\ pc = "start"
    /\ files' \in Orders({f \in DOMAIN input_dir : Listed(f)})
    /\ idx' = 1
    /\ pc' = "files"
    /\ UNCHANGED <<input_dir, nameVars, metricVars, summaryVars, seriesVars>>

\* one iteration of 'for f in files': decode the name, extract the metrics
LoopFile ==
    /\ pc = "files"
    /\ idx <= Len(files)
    /\ LET f == files[idx]
           params == parse_filename(f)
           m == calculate_metrics(input_dir[f])
       IN  IF params.tag = "ValueError"
           THEN /\ pc' = "crashed"
                /\ UNCHANGED <<idx, results, metadata>>
           ELSE /\ pc' = pc
                /\ idx' = idx + 1
                /\ IF params.tag = "ok" /\ m.tag = "ok"
                   THEN /\ results' = DictAppend(results, params.key, m)
                        /\ metadata' = DictSetDefault(metadata, params.key, params)
                   ELSE UNCHANGED <<results, metadata>>
    /\ UNCHANGED <<input_dir, files, grouped_throughput, grouped_makespan,
                   throughput_out, makespan_out, prev_out,
                   nameVars, metricVars, seriesVars>>

\* mutant: the sum is not divided by the number of repetitions
MeanOfSumOnly(metrics_list, field) ==
    FracSum([k \in DOMAIN metrics_list |-> metrics_list[k][field]])

\* sum(m[field] for m in metrics_list) / len(metrics_list)
MeanOf(metrics_list, field) ==
    FracDivInt(FracSum([k \in DOMAIN metrics_list |-> metrics_list[k][field]]),
               Len(metrics_list))

\* f"{meta['workload']}__{meta['storage_engine']}"
OutputKey(meta) == meta.workload \o <<"_", "_">> \o meta.storage_engine

CommonMeta(meta) ==
    [workload |-> meta.workload, workers |-> meta.workers,
     storage_type |-> meta.storage_type, partitions |-> meta.partitions,
     storage_engine |-> meta.storage_engine, paths |-> meta.paths,
     interval |-> meta.interval]

\* {**common_meta, field: value}
WithField(common_meta, field, value) ==
    [k \in DOMAIN common_meta \cup {field} |->
        IF k = field THEN value ELSE common_meta[k]]

\* 'for key, metrics_list in results.items()' from entry k on: the rows of
\* field grouped by output key
RECURSIVE GroupRows(_, _, _, _)
GroupRows(res, meta, field, k) ==
    IF k = 0 THEN <<>>
    ELSE LET m == DictGet(meta, res[k].key)
         IN  DictAppend(GroupRows(res, meta, field, k - 1), OutputKey(m),
                        WithField(CommonMeta(m), field, MeanOf(res[k].val, field)))

\* the loop over results.items(): one mean row per key, grouped by output key
Aggregate ==
    /\ pc = "files"
    /\ idx > Len(files)
    /\ grouped_throughput' = GroupRows(results, metadata, "ops_per_second", Len(results))
    /\ grouped_makespan' = GroupRows(results, metadata, "makespan_s", Len(results))
    /\ pc' = "write_throughput"
    /\ UNCHANGED <<input_dir, files, idx, results, metadata, throughput_out,
                   makespan_out, prev_out, nameVars, metricVars, seriesVars>>

\* the directory after one sorted CSV per output key was written into it
WriteFiles(dir, grouped) ==
    [k \in DOMAIN dir \cup DictKeys(grouped) |->
        IF k \in DictKeys(grouped) THEN Sorted(DictGet(grouped, k)) ELSE dir[k]]

\* 'for output_key, data_list in grouped_throughput.items()'
WriteThroughput ==
    /\ pc = "write_throughput"
    /\ throughput_out' = WriteFiles(throughput_out, grouped_throughput)
    /\ pc' = "write_makespan"
    /\ UNCHANGED <<input_dir, files, idx, results, metadata, grouped_throughput,
                   grouped_makespan, makespan_out, prev_out,
                   nameVars, metricVars, seriesVars>>

\* 'for output_key, data_list in grouped_makespan.items()'
WriteMakespan ==
    /\ pc = "write_makespan"
    /\ makespan_out' = WriteFiles(makespan_out, grouped_makespan)
    /\ pc' = "done"
    /\ UNCHANGED <<input_dir, files, idx, results, metadata, grouped_throughput,
                   grouped_makespan, throughput_out, prev_out,
                   nameVars, metricVars, seriesVars>>

\* main is run again on the unchanged input directory; the output directory
\* keeps the files of the first run until they are overwritten
Rerun ==
    /\ pc = "done"
    /\ prev_out = None
    /\ prev_out' = [tag |-> "out", throughput |-> throughput_out,
                    makespan |-> makespan_out]
    /\ pc' = "start"
    /\ files' = <<>>
    /\ idx' = 0
    /\ results' = <<>>
    /\ metadata' = <<>>
    /\ grouped_throughput' = <<>>
    /\ grouped_makespan' = <<>>
    /\ UNCHANGED <<input_dir, throughput_out, makespan_out,
                   nameVars, metricVars, seriesVars>>

(***************************************************************************)
(* round(time_ms / 1000.0, 1), in tenths of a second                       *)
(***************************************************************************)
\* 2^k mod 1000
RECURSIVE Pow2Mod(_)
Pow2Mod(k) == IF k = 0 THEN 1 ELSE (2 * Pow2Mod(k - 1)) % 1000

\* for ms >= 1000: the e >= 0 with 2^e <= ms / 1000 < 2^(e + 1)
RECURSIVE ExponentUp(_, _)
ExponentUp(ms, bound) == IF 2 * bound <= ms THEN 1 + ExponentUp(ms, 2 * bound) ELSE 0

\* for 0 < ms < 1000: the n > 0 with 2^(-n) <= ms / 1000 < 2^(1 - n)
RECURSIVE ExponentDown(_)
ExponentDown(scaled) == IF scaled < 1000 THEN 1 + ExponentDown(2 * scaled) ELSE 0

\* the binary exponent of the double ms / 1000.0, ms > 0
Exponent(ms) == IF ms >= 1000 THEN ExponentUp(ms, 1000) ELSE -ExponentDown(ms)

\* ms / 1000.0 is the double nearest to ms / 1000: its 53-bit significand is
\* ms * 2^(52 - e) / 1000 rounded, and the remainder of that division tells
\* whether the double is the exact quotient (0), below it (< 500) or above
DoubleRemainder(ms) == ((ms % 1000) * Pow2Mod(52 - Exponent(ms))) % 1000

\* mutant: the time is truncated to the tenth below
RoundTenthsTruncating(time_ms) == time_ms \div 100

\* round(time_ms / 1000.0, 1) * 10 for an integral time_ms: the nearest tenth
\* of the double; a tie in decimal is decided by the double's error, an exact
\* tie rounds to the even tenth
RECURSIVE RoundTenths(_)
RoundTenths(time_ms) ==
    IF time_ms < 0 THEN -RoundTenths(-time_ms)
    ELSE LET q == time_ms \div 100
             rem == time_ms % 100
         IN  IF rem < 50 THEN q
             ELSE IF rem > 50 THEN q + 1
             ELSE LET r == DoubleRemainder(time_ms)
                  IN  IF r = 0 THEN (IF q % 2 = 0 THEN q ELSE q + 1)
                      ELSE IF r < 500 THEN q
                      ELSE q + 1

(***************************************************************************)
(* process_file (aggregate_throughput_time.py)                             *)
(***************************************************************************)
\* A time-series CSV is [readable, header, rows]: header the column names of
\* its first line, rows the cells of each further line.

\* row[column] of csv.DictReader: the column is no field name ("KeyError"), the
\* line is too short for it (None), or the cell
Cell(header, row, column) ==
    IF \A k \in DOMAIN header : header[k] # column THEN [tag |-> "KeyError"]
    ELSE LET k == CHOOSE j \in DOMAIN header : header[j] = column
         IN  IF k > Len(row) THEN None ELSE [tag |-> "str", s |-> row[k]]

\* float(row[column].replace('.', ''))
NumberCell(header, row, column) ==
    LET c == Cell(header, row, column)
    IN  IF c.tag # "str" THEN [tag |-> "error"] ELSE PyFloat(RemoveDots(c.s))

\* 1 if row.get(column, '').strip().lower() == 'x' else 0
FlagCell(header, row, column) ==
    LET c == Cell(header, row, column)
    IN  IF c.tag = "KeyError" THEN [tag |-> "flag", val |-> 0]
        ELSE IF c.tag = "None" THEN [tag |-> "error"]
        ELSE [tag |-> "flag", val |-> IF Lower(Strip(c.s)) = <<"x">> THEN 1 ELSE 0]

\* the values read from one row, or "error" when reading it raises
ReadRow(header, row) ==
    LET time_ms == NumberCell(header, row, "elapsed_time_ms")
        count == NumberCell(header, row, "executed_count")
        tracking == FlagCell(header, row, "Tracking")
        repartitioning == FlagCell(header, row, "Repartitioning")
    IN  IF \/ time_ms.tag # "float" \/ count.tag # "float"
           \/ tracking.tag = "error" \/ repartitioning.tag = "error"
        THEN [tag |-> "error"]
        ELSE [tag |-> "ok", time_ms |-> time_ms.val, count |-> count.val,
              tracking |-> tracking.val, repartitioning |-> repartitioning.val]

\* the loop 'for row in reader' after the first k rows: "error" when a row
\* raised, else prev_time and prev_count (prev, None before the first row)
\* and results
RECURSIVE ScanRows(_, _, _)
ScanRows(header, rows, k) ==
    IF k = 0 THEN [tag |-> "ok", prev |-> None, results |-> <<>>]
    ELSE LET before == ScanRows(header, rows, k - 1)
             row == ReadRow(header, rows[k])
         IN  IF before.tag = "error" THEN before
             ELSE IF rows[k] = <<>> THEN before
             ELSE IF row.tag = "error" THEN [tag |-> "error"]
             ELSE LET sampled == /\ before.prev # None
                                 /\ row.time_ms - before.prev.time_ms > 0
                      entry == [elapsed_s |-> RoundTenths(row.time_ms),
                                throughput |->
                                    Frac((row.count - before.prev.count) * 1000,
                                         row.time_ms - before.prev.time_ms),
                                tracking |-> row.tracking,
                                repartitioning |-> row.repartitioning]
                  IN  [tag |-> "ok",
                       prev |-> [tag |-> "prev", time_ms |-> row.time_ms,
                                 count |-> row.count],
                       results |-> IF sampled THEN Append(before.results, entry)
                                   ELSE before.results]

\* None when the file cannot be read or a row raises, else the list of entries
process_file(file) ==
    IF ~file.readable THEN None
    ELSE LET scan == ScanRows(file.header, file.rows, Len(file.rows))
         IN  IF scan.tag = "error" THEN None
             ELSE [tag |-> "list", entries |-> scan.results]

(***************************************************************************)
(* main (aggregate_throughput_time.py)                                     *)
(***************************************************************************)
\* files = [f for f in os.listdir(input_dir) if ...]
ListDirSeries ==
    /\ pc = "start"
    /\ files' \in Orders({f \in DOMAIN input_dir : Listed(f)})
    /\ idx' = 1
    /\ fidx' = 1
    /\ pc' = IF files' = <<>> THEN "configs" ELSE "group"
    /\ UNCHANGED <<input_dir, config_groups, data, time_points, chart_data,
                   chart_out, nameVars, metricVars, summaryVars>>

\* one iteration of 'for f in files': decode the name, group by config_key
GroupFile ==
    /\ pc = "group"
    /\ idx <= Len(files)
    /\ LET f == files[idx]
           params == tt_parse_filename(f)
       IN  IF params.tag = "ValueError"
           THEN /\ pc' = "crashed"
                /\ UNCHANGED <<idx, config_groups>>
           ELSE /\ pc' = IF idx = Len(files) THEN "configs" ELSE pc
                /\ idx' = IF idx = Len(files) THEN 1 ELSE idx + 1
                /\ config_groups' =
                       IF params.tag = "ok"
                       THEN DictAppend(config_groups, params.config_key,
                                       [f |-> f, params |-> params])
                       ELSE config_groups
    /\ UNCHANGED <<input_dir, files, fidx, data, time_points, chart_data,
                   chart_out, nameVars, metricVars, summaryVars>>

\* time_points[entry['elapsed_s']].append(entry) for every entry
RECURSIVE AddEntries(_, _, _)
AddEntries(points, entries, k) ==
    IF k = 0 THEN points
    ELSE DictAppend(AddEntries(points, entries, k - 1),
                    entries[k].elapsed_s, entries[k])

\* one iteration of 'for f, p in file_list' of the current config
ProcessFile ==
    /\ pc = "configs"
    /\ idx <= Len(config_groups)
    /\ fidx <= Len(config_groups[idx].val)
    /\ data' = process_file(input_dir[config_groups[idx].val[fidx].f])
    /\ time_points' =
           IF data'.tag = "list"
           THEN AddEntries(time_points, data'.entries, Len(data'.entries))
           ELSE time_points
    /\ fidx' = fidx + 1
    /\ UNCHANGED <<input_dir, files, pc, idx, config_groups, chart_data,
                   chart_out, nameVars, metricVars, summaryVars>>

\* sorted(S) for a set of numbers
RECURSIVE SortedNumbers(_)
SortedNumbers(S) ==
    IF S = {} THEN <<>>
    ELSE LET least == CHOOSE x \in S : \A y \in S : x <= y
         IN  <<least>> \o SortedNumbers(S \ {least})

\* min(tps), max(tps)
FracMin(tps) ==
    tps[CHOOSE k \in DOMAIN tps : \A j \in DOMAIN tps : ~FracLess(tps[j], tps[k])]

FracMax(tps) ==
    tps[CHOOSE k \in DOMAIN tps : \A j \in DOMAIN tps : ~FracLess(tps[k], tps[j])]

RECURSIVE IntSum(_)
IntSum(seq) ==
    IF seq = <<>> THEN 0 ELSE seq[1] + IntSum(Tail(seq))

\* sum(e[flag] for e in entries) / len(entries)
FlagFrequency(entries, flag) ==
    Frac(IntSum([k \in DOMAIN entries |-> entries[k][flag]]), Len(entries))

\* f"{storage_type}_p{partitions}_w{paths}_i{interval}"
LineLabel(params) ==
    params.storage_type \o <<"_", "p">> \o IntStr(params.partitions)
        \o <<"_", "w">> \o IntStr(params.paths)
        \o <<"_", "i">> \o IntStr(params.interval)

\* the aggregated row of time bucket t
AggregatedRow(t, entries, params) ==
    LET tps == [k \in DOMAIN entries |-> entries[k].throughput]
    IN  [elapsed_s |-> t,
         mean |-> FracDivInt(FracSum(tps), Len(tps)),
         min |-> FracMin(tps),
         max |-> FracMax(tps),
         tracking_prob |-> FlagFrequency(entries, "tracking"),
         repartitioning_prob |-> FlagFrequency(entries, "repartitioning"),
         storage_type |-> params.storage_type,
         partitions |-> params.partitions,
         paths |-> params.paths,
         interval |-> params.interval,
         line_label |-> LineLabel(params)]

\* mutant: the time points are taken in insertion order
BucketOrderUnsorted(points) == [k \in DOMAIN points |-> points[k].key]

\* sorted(time_points.keys())
BucketOrder(points) == SortedNumbers(DictKeys(points))

\* 'for t in sorted(time_points.keys())'
AggregatedRows(points, params) ==
    LET order == BucketOrder(points)
    IN  [k \in DOMAIN order |-> AggregatedRow(order[k], DictGet(points, order[k]), params)]

\* the end of one iteration of 'for config_key, file_list in ...': the rows
\* of the config are appended to its chart
EmitRows ==
    /\ pc = "configs"
    /\ idx <= Len(config_groups)
    /\ fidx > Len(config_groups[idx].val)
    /\ LET params == config_groups[idx].val[1].params
       IN  chart_data' =
               IF time_points = <<>> THEN chart_data
               ELSE DictExtend(chart_data, params.chart_key,
                               AggregatedRows(time_points, params))
    /\ time_points' = <<>>
    /\ idx' = idx + 1
    /\ fidx' = 1
    /\ UNCHANGED <<input_dir, files, pc, config_groups, data, chart_out,
                   nameVars, metricVars, summaryVars>>

\* 'for chart_key, rows in chart_data.items()': one CSV per chart key
WriteCharts ==
    /\ pc = "configs"
    /\ idx > Len(config_groups)
    /\ chart_out' =
           [k \in DOMAIN chart_out \cup {key \in DictKeys(chart_data) :
                                             DictGet(chart_data, key) # <<>>} |->
               IF k \in DictKeys(chart_data) THEN DictGet(chart_data, k)
               ELSE chart_out[k]]
    /\ pc' = "done"
    /\ UNCHANGED <<input_dir, files, idx, fidx, config_groups, data,
                   time_points, chart_data, nameVars, metricVars, summaryVars>>

(***************************************************************************)
(* File-name check: encode a configuration, decode it with both scripts    *)
(***************************************************************************)
MaxFieldLen == 2

FieldChars == {"a", "_", "."}

\* all strings over chars of length at most n
RECURSIVE StringsUpTo(_, _)
StringsUpTo(chars, n) ==
    IF n = 0 THEN {<<>>}
    ELSE LET shorter == StringsUpTo(chars, n - 1)
         IN  shorter \cup {s \o <<c>> : s \in shorter, c \in chars}

Unset == [tag |-> "unset"]

Sep == <<"_", "_">>

\* '<workload>__<workers>__<storage_type>__<partitions>__<storage_engine>__
\*  <paths>__<interval>'
ConfigName(c) ==
    c.workload \o Sep \o IntStr(c.workers) \o Sep \o c.storage_type \o Sep
        \o IntStr(c.partitions) \o Sep \o c.storage_engine \o Sep
        \o IntStr(c.paths) \o Sep \o IntStr(c.interval)

\* '<configuration>(<rep>).csv'
RunFileName(c, rep) ==
    ConfigName(c) \o <<"(">> \o NatStr(rep) \o <<")", ".", "c", "s", "v">>

NameConfigs ==
    [workload : StringsUpTo(FieldChars, MaxFieldLen),
     workers : {-3, 12},
     storage_type : StringsUpTo(FieldChars, MaxFieldLen),
     partitions : {1, 10},
     storage_engine : StringsUpTo(FieldChars, MaxFieldLen - 1),
     paths : {0, 2},
     interval : {0, 500},
     rep : {0, 10}]

pipelineIdle ==
    /\ input_dir = <<>> /\ files = <<>> /\ pc = "idle" /\ idx = 0
    /\ results = <<>> /\ metadata = <<>>
    /\ grouped_throughput = <<>> /\ grouped_makespan = <<>>
    /\ throughput_out = <<>> /\ makespan_out = <<>> /\ prev_out = None
    /\ config_groups = <<>> /\ fidx = 0 /\ data = None
    /\ time_points = <<>> /\ chart_data = <<>> /\ chart_out = <<>>

nameIdle == cfg = None /\ fname = <<>> /\ parsed = Unset /\ tt_parsed = Unset

metricIdle == csv_lines = <<>> /\ metrics = Unset

NameInit ==
    /\ cfg \in NameConfigs
    /\ fname = RunFileName(cfg, cfg.rep)
    /\ parsed = Unset
    /\ tt_parsed = Unset
    /\ metricIdle
    /\ pipelineIdle

\* aggregate_results.py decodes the name
ParseName ==
    /\ parsed = Unset
    /\ parsed' = parse_filename(fname)
    /\ UNCHANGED <<cfg, fname, tt_parsed, metricVars, dirVars, summaryVars, seriesVars>>

\* aggregate_throughput_time.py decodes the name
ParseNameSeries ==
    /\ tt_parsed = Unset
    /\ tt_parsed' = tt_parse_filename(fname)
    /\ UNCHANGED <<cfg, fname, parsed, metricVars, dirVars, summaryVars, seriesVars>>

NameNext == ParseName \/ ParseNameSeries

NameSpec == NameInit /\ [][NameNext]_vars

\* the string fields of the configuration
StringFields(c) == {c.workload, c.storage_type, c.storage_engine}

HasDelimiter(s) == \E k \in 1..(Len(s) - 1) : s[k] = "_" /\ s[k + 1] = "_"

\* the record the claim expects from the summary script
ExpectedParsed ==
    [tag |-> "ok", workload |-> cfg.workload, workers |-> cfg.workers,
     storage_type |-> cfg.storage_type, partitions |-> cfg.partitions,
     storage_engine |-> cfg.storage_engine, paths |-> cfg.paths,
     interval |-> cfg.interval, rep |-> cfg.rep, key |-> ConfigName(cfg)]

\* the record the claim expects from the time-series script
ExpectedSeriesParsed ==
    [tag |-> "ok", workload |-> cfg.workload, workers |-> cfg.workers,
     storage_type |-> cfg.storage_type, partitions |-> cfg.partitions,
     storage_engine |-> cfg.storage_engine, paths |-> cfg.paths,
     interval |-> cfg.interval, rep |-> cfg.rep, config_key |-> ConfigName(cfg),
     chart_key |-> cfg.workload \o Sep \o cfg.storage_engine \o Sep
                       \o IntStr(cfg.workers)]

RoundTrips ==
    /\ parsed # Unset => parsed = ExpectedParsed
    /\ tt_parsed # Unset => tt_parsed = ExpectedSeriesParsed

\* C1 as stated: for every configuration whose string fields hold no '__'
\* delimiter, decoding the encoded name returns exactly the encoded values and
\* the name without '(rep).csv' as key.
C1_Original ==
    (\A s \in StringFields(cfg) : ~HasDelimiter(s)) => RoundTrips

\* C1 amended: the same, for configurations whose string fields hold no '__'
\* and do not end in '_'.  The decoded record holds every encoded field and
\* rep, so two distinct (configuration, rep) pairs decode to distinct records.
C1_RoundTrip ==
    (\A s \in StringFields(cfg) :
        ~HasDelimiter(s) /\ (s = <<>> \/ s[Len(s)] # "_")) => RoundTrips

\* C1 witness: a name with '_' and '.' inside its fields, a negative and a
\* two-digit integer and a two-digit rep has been decoded by both scripts.
C1_Witness ==
    /\ parsed = ExpectedParsed
    /\ tt_parsed = ExpectedSeriesParsed
    /\ cfg.workload = <<"_", "a">>
    /\ cfg.storage_type = <<".", "a">>
    /\ cfg.workers = -3
    /\ cfg.partitions = 10
    /\ cfg.rep = 10

(***************************************************************************)
(* Metric check: calculate_metrics on one run CSV                          *)
(***************************************************************************)
MaxLines == 3

\* lines a run CSV is built from
MetricLines ==
    {<<>>, <<" ">>,
     <<"t", ",", "n">>,
     <<"1", "0", "0", "0", ",", "5", "0", "0">>,
     <<"0", ",", "5", "0", "0">>,
     <<"-", "5", ",", "1", "0">>,
     <<"2", ".", "0", "0", "0", ",", "1", ".", "5", "0", "0", ",", "x">>,
     <<" ", "4", "0", "0", ",", "3", " ">>,
     <<"7", "0", "0">>,
     <<"1", "0", ",", "x">>}

RECURSIVE SeqsUpTo(_, _)
SeqsUpTo(S, n) ==
    IF n = 0 THEN {<<>>}
    ELSE LET shorter == SeqsUpTo(S, n - 1)
         IN  shorter \cup {q \o <<e>> : q \in shorter, e \in S}

Unreadable == [readable |-> FALSE, lines |-> <<>>]

MetricInit ==
    /\ csv_lines \in {[readable |-> TRUE, lines |-> l] :
                          l \in SeqsUpTo(MetricLines, MaxLines)} \cup {Unreadable}
    /\ metrics = Unset
    /\ nameIdle
    /\ pipelineIdle

CalculateMetrics ==
    /\ metrics = Unset
    /\ metrics' = calculate_metrics(csv_lines)
    /\ UNCHANGED <<csv_lines, nameVars, dirVars, summaryVars, seriesVars>>

MetricNext == CalculateMetrics

MetricSpec == MetricInit /\ [][MetricNext]_vars

\* the last non-empty line as the claim describes it: the final line, or the
\* line before it when the final line is blank
ClaimLastLine(lines) ==
    IF Strip(lines[Len(lines)]) # <<>> THEN Strip(lines[Len(lines)])
    ELSE Strip(lines[Len(lines) - 1])

ClaimFields(lines) == SplitChar(ClaimLastLine(lines), ",", 1)

\* the last line has two numeric first fields
ClaimNumeric(lines) ==
    /\ Len(ClaimFields(lines)) >= 2
    /\ PyFloat(RemoveDots(ClaimFields(lines)[1])).tag = "float"
    /\ PyFloat(RemoveDots(ClaimFields(lines)[2])).tag = "float"

ClaimElapsed(lines) == PyFloat(RemoveDots(ClaimFields(lines)[1])).val

ClaimCount(lines) == PyFloat(RemoveDots(ClaimFields(lines)[2])).val

\* what the claim says of the result for a file with these lines
MetricsAsClaimed(lines) ==
    /\ ClaimNumeric(lines) /\ ClaimElapsed(lines) > 0 =>
          /\ metrics.tag = "ok"
          /\ metrics.ops_per_second.n * ClaimElapsed(lines)
                 = ClaimCount(lines) * 1000 * metrics.ops_per_second.d
          /\ metrics.makespan_s.n * 1000 = ClaimElapsed(lines) * metrics.makespan_s.d
    /\ ClaimNumeric(lines) /\ ClaimElapsed(lines) = 0 => metrics = None

\* C2 as stated: every readable run CSV with at least 2 lines whose last
\* non-empty line holds elapsed_ms > 0 and executed_count yields
\* ops_per_second = executed_count * 1000 / elapsed_ms and makespan_s =
\* elapsed_ms / 1000; elapsed_ms = 0 yields no result.
C2_Original ==
    metrics # Unset /\ csv_lines.readable /\ Len(csv_lines.lines) >= 2
        => MetricsAsClaimed(csv_lines.lines)

\* C2 amended: the same for a CSV with at least 2 lines, and at least 3 lines
\* when its final line is blank.
C2_Metrics ==
    /\ metrics # Unset
    /\ csv_lines.readable
    /\ Len(csv_lines.lines) >= 2
    /\ (Strip(csv_lines.lines[Len(csv_lines.lines)]) = <<>>
            => Len(csv_lines.lines) >= 3)
    => MetricsAsClaimed(csv_lines.lines)

\* C2 witness: a three-line CSV ending in a blank line after '1000,500' has
\* been reduced to 500 operations per second and a makespan of 1 second.
C2_Witness ==
    /\ csv_lines.readable
    /\ Len(csv_lines.lines) = 3
    /\ csv_lines.lines[3] = <<" ">>
    /\ csv_lines.lines[2] = <<"1", "0", "0", "0", ",", "5", "0", "0">>
    /\ metrics = [tag |-> "ok", ops_per_second |-> [n |-> 500, d |-> 1],
                  makespan_s |-> [n |-> 1, d |-> 1]]

(***************************************************************************)
(* Summary pipeline check: main of aggregate_results.py on a directory     *)
(***************************************************************************)
MaxFiles == 3
MaxSkipFiles == 2
MaxRerunFiles == 2

BaseConfig ==
    [workload |-> <<"a">>, workers |-> 2, storage_type |-> <<"s">>,
     partitions |-> 1, storage_engine |-> <<"e">>, paths |-> 1, interval |-> 0]

\* run files: three repetitions of one configuration, and configurations that
\* differ from it in paths, workers, storage_type, partitions or workload
Rep1 == RunFileName(BaseConfig, 1)
Rep2 == RunFileName(BaseConfig, 2)
Rep3 == RunFileName(BaseConfig, 3)
OtherPaths == RunFileName([BaseConfig EXCEPT !.paths = 2], 1)
TenWorkers == RunFileName([BaseConfig EXCEPT !.workers = 10], 1)
OtherType == RunFileName([BaseConfig EXCEPT !.storage_type = <<"r">>, !.partitions = 3], 1)
NoPartitions == RunFileName([BaseConfig EXCEPT !.partitions = 0], 1)
OtherWorkload == RunFileName([BaseConfig EXCEPT !.workload = <<"b">>], 1)

\* names that are not run files
SixFields ==
    <<"a", "_", "_", "2", "_", "_", "s", "_", "_", "1", "_", "_", "e", "_", "_", "1",
      "(", "1", ")", ".", "c", "s", "v">>
NoRepSuffix == ConfigName(BaseConfig) \o <<"(", "x", ")", ".", "c", "s", "v">>
NoParenthesis == ConfigName(BaseConfig) \o <<".", "c", "s", "v">>
WorkersNotNumeric ==
    <<"a", "_", "_", "x", "_", "_", "s", "_", "_", "1", "_", "_", "e", "_", "_", "1",
      "_", "_", "0", "(", "1", ")", ".", "c", "s", "v">>

HeaderLine == <<"t", ",", "n">>

CsvOf(lines) == [readable |-> TRUE, lines |-> lines]

\* run CSVs: 100 and 200 operations per second, and CSVs without a result
Csv100 == CsvOf(<<HeaderLine, <<"1", ".", "0", "0", "0", ",", "1", "0", "0">>>>)
Csv200 == CsvOf(<<HeaderLine, <<"2", "0", "0", "0", ",", "4", "0", "0">>, <<>>>>)
CsvZeroElapsed == CsvOf(<<HeaderLine, <<"0", ",", "5", "0", "0">>>>)
CsvNegativeElapsed == CsvOf(<<HeaderLine, <<"-", "5", ",", "1", "0">>>>)
CsvOneLine == CsvOf(<<<<"1", "0", "0", "0", ",", "5", "0", "0">>>>)
CsvOneField == CsvOf(<<HeaderLine, <<"7", "0", "0">>>>)
CsvNotNumeric == CsvOf(<<HeaderLine, <<"1", "0", ",", "x">>>>)
CsvEmpty == CsvOf(<<>>)

\* every directory of at most max files named in names with contents in contents
Dirs(names, contents, max) ==
    UNION {[S -> contents] : S \in {T \in SUBSET names : Cardinality(T) <= max}}

summaryStart ==
    /\ files = <<>> /\ pc = "start" /\ idx = 0
    /\ results = <<>> /\ metadata = <<>>
    /\ grouped_throughput = <<>> /\ grouped_makespan = <<>>
    /\ throughput_out = <<>> /\ makespan_out = <<>> /\ prev_out = None
    /\ config_groups = <<>> /\ fidx = 0 /\ data = None
    /\ time_points = <<>> /\ chart_data = <<>> /\ chart_out = <<>>
    /\ nameIdle
    /\ metricIdle

SummaryInit ==
    /\ input_dir \in Dirs({Rep1, Rep2, Rep3, OtherPaths, TenWorkers, OtherType,
                           NoPartitions, OtherWorkload},
                          {Csv100, Csv200, CsvZeroElapsed}, MaxFiles)
    /\ summaryStart

SkipInit ==
    /\ input_dir \in Dirs({Rep1, Rep2, OtherWorkload, SixFields, NoRepSuffix,
                           NoParenthesis, WorkersNotNumeric},
                          {Csv100, Csv200, CsvZeroElapsed, CsvNegativeElapsed,
                           CsvOneLine, CsvOneField, CsvNotNumeric, CsvEmpty,
                           Unreadable}, MaxSkipFiles)
    /\ summaryStart

RerunInit ==
    /\ input_dir \in Dirs({Rep1, Rep2, OtherPaths, TenWorkers, OtherWorkload},
                          {Csv100, Csv200}, MaxRerunFiles)
    /\ summaryStart

SummaryNext ==
    \/ ListDir
    \/ LoopFile
    \/ Aggregate
    \/ WriteThroughput
    \/ WriteMakespan

RerunNext == SummaryNext \/ Rerun

SummarySpec == SummaryInit /\ [][SummaryNext]_vars

SkipSpec == SkipInit /\ [][SummaryNext]_vars

RerunSpec == RerunInit /\ [][RerunNext]_vars

\* the files of the input directory that main lists
ListedFiles == {f \in DOMAIN input_dir : Listed(f)}

\* the decoded name and the result of every file of S that is decoded and
\* whose CSV yields a result
Produced(S) ==
    {r \in {[params |-> parse_filename(f), m |-> calculate_metrics(input_dir[f])] :
                f \in S} :
        r.params.tag = "ok" /\ r.m.tag = "ok"}

\* the sum of one metric over a set of produced results
RECURSIVE MetricSum(_, _)
MetricSum(R, field) ==
    IF R = {} THEN Frac(0, 1)
    ELSE LET r == CHOOSE q \in R : TRUE
         IN  FracAdd(r.m[field], MetricSum(R \ {r}, field))

\* the output row expected for the repetitions R of one key: its metadata and
\* the arithmetic mean of the metric over R
ExpectedRow(R, field) ==
    LET v == MetricSum(R, field)
        meta == (CHOOSE r \in R : TRUE).params
    IN  WithField(CommonMeta(meta), field, Frac(v.n, v.d * Cardinality(R)))

\* the rows expected for the files S: one per key
ExpectedRows(S, field) ==
    LET produced == Produced(S)
    IN  {ExpectedRow({r \in produced : r.params.key = key}, field) :
            key \in {r.params.key : r \in produced}}

\* all rows of all files of an output directory, as a list
RECURSIVE AllRows(_, _)
AllRows(out, names) ==
    IF names = {} THEN <<>>
    ELSE LET n == CHOOSE m \in names : TRUE
         IN  out[n] \o AllRows(out, names \ {n})

Range(seq) == {seq[k] : k \in DOMAIN seq}

\* the output directory holds exactly one mean row per key of S
RowsAreMeansOf(S, out, field) ==
    LET rows == AllRows(out, DOMAIN out)
        expected == ExpectedRows(S, field)
    IN  /\ Range(rows) = expected
        /\ Len(rows) = Cardinality(expected)

\* C3: when main is done, the output holds for every Configuration Key exactly
\* one row, whose ops_per_second (makespan_s) is the arithmetic mean over the
\* repetitions of that key whose file produced a result, and no other row.
C3_Mean ==
    pc = "done" =>
        /\ RowsAreMeansOf(ListedFiles, throughput_out, "ops_per_second")
        /\ RowsAreMeansOf(ListedFiles, makespan_out, "makespan_s")

\* C3 witness: repetitions with 100 and 200 operations per second and a third
\* repetition without a result have been aggregated into a mean of 150.
C3_Witness ==
    /\ pc = "done"
    /\ DOMAIN input_dir = {Rep1, Rep2, Rep3}
    /\ input_dir[Rep1] = Csv100
    /\ input_dir[Rep2] = Csv200
    /\ input_dir[Rep3] = CsvZeroElapsed
    /\ throughput_out[<<"a", "_", "_", "e">>] =
           <<WithField(BaseConfig, "ops_per_second", [n |-> 150, d |-> 1])>>

\* (workers, storage_type, partitions) of x is not greater than that of y:
\* integers compared as integers, storage_type as a string
KeyNotGreater(x, y) ==
    \/ x.workers < y.workers
    \/ /\ x.workers = y.workers
       /\ \/ StrLess(x.storage_type, y.storage_type)
          \/ x.storage_type = y.storage_type /\ x.partitions <= y.partitions

FileIsSorted(name, rows) ==
    /\ \A k \in DOMAIN rows :
          rows[k].workload \o Sep \o rows[k].storage_engine = name
    /\ \A i, j \in DOMAIN rows : i < j => KeyNotGreater(rows[i], rows[j])

\* C7: in every throughput and makespan output file the rows share the file's
\* workload and storage engine and ascend in (workers, storage_type,
\* partitions), workers and partitions compared as integers.
C7_Sorted ==
    /\ \A name \in DOMAIN throughput_out : FileIsSorted(name, throughput_out[name])
    /\ \A name \in DOMAIN makespan_out : FileIsSorted(name, makespan_out[name])

\* C7 witness: an output file of three rows was written in which workers 2
\* precedes workers 10, and within workers 2 storage type 'r' precedes 's'.
C7_Witness ==
    /\ pc = "done"
    /\ \E name \in DOMAIN makespan_out :
          LET rows == makespan_out[name]
          IN  /\ Len(rows) = 3
              /\ rows[1].workers = 2 /\ rows[1].storage_type = <<"r">>
              /\ rows[2].workers = 2 /\ rows[2].storage_type = <<"s">>
              /\ rows[3].workers = 10

\* a skippable per-file error as the claim lists them; the last line is the
\* last non-empty line the extractor reads
SkippableName(f) ==
    \/ RepMatchStart(RSplitDot(f)) = 0
    \/ Len(Split2(SubSeq(RSplitDot(f), 1, RepMatchStart(RSplitDot(f)) - 1),
                  "_", "_")) # 7

SkippableCsv(file) ==
    \/ ~file.readable
    \/ Len(file.lines) < 2
    \/ Len(ClaimFields(file.lines)) < 2
    \/ ~ClaimNumeric(file.lines)
    \/ ClaimElapsed(file.lines) <= 0

\* the CSV of a file is read only once its name has been decoded
Skippable(f) ==
    \/ SkippableName(f)
    \/ parse_filename(f).tag = "ok" /\ SkippableCsv(input_dir[f])

\* C8: a file with a skippable error does not crash the run, and the rows
\* written are exactly those written for the directory without these files.
C8_SkipLocal ==
    /\ pc = "crashed" => ~Skippable(files[idx])
    /\ pc = "done" =>
          LET kept == {f \in ListedFiles : ~Skippable(f)}
          IN  /\ RowsAreMeansOf(kept, throughput_out, "ops_per_second")
              /\ RowsAreMeansOf(kept, makespan_out, "makespan_s")

\* C8 witness: a run over a file with a negative elapsed time and a good
\* file is done and has written the good file's row.
C8_Witness ==
    /\ pc = "done"
    /\ \E f, g \in ListedFiles :
          /\ input_dir[f] = CsvNegativeElapsed
          /\ parse_filename(f).tag = "ok"
          /\ ~Skippable(g)
    /\ throughput_out # <<>>

\* C6: a second run of main on the unchanged input directory writes the same
\* files with the same rows in the same order as the first, whatever order
\* the directory is listed in.
C6_Deterministic ==
    pc = "done" /\ prev_out # None =>
        /\ throughput_out = prev_out.throughput
        /\ makespan_out = prev_out.makespan

(***************************************************************************)
(* Time-series pipeline check: main of aggregate_throughput_time.py        *)
(***************************************************************************)
MaxSeriesFiles == 3
MaxErrorFiles == 2

SeriesHeader == <<"elapsed_time_ms", "executed_count", "Tracking", "Repartitioning">>

SeriesOf(header, rows) == [readable |-> TRUE, header |-> header, rows |-> rows]

Zero == <<"0">>
Blank == <<>>
Active == <<"x">>

\* samples at 1040 ms and 1060 ms, tracking active
SeriesA ==
    SeriesOf(SeriesHeader,
             <<<<Zero, Zero, Blank, Blank>>,
               <<<<"1", ".", "0", "4", "0">>, <<"1", "0", "4">>, Active, Blank>>,
               <<<<"1", "0", "6", "0">>, <<"1", "1", "0">>, <<" ", "X", " ">>, Blank>>>>)

\* samples at 960 ms and 2000 ms, repartitioning active at the second
SeriesB ==
    SeriesOf(SeriesHeader,
             <<<<Zero, Zero, Blank, Blank>>,
               <<<<"9", "6", "0">>, <<"4", "8">>, Blank, Blank>>,
               <<<<"2", ".", "0", "0", "0">>, <<"2", "0", "0">>, Blank, Active>>>>)

\* two samples in the bucket of 1.0 s, tracking active at both, and a row
\* that repeats the time of the row before it
SeriesC ==
    SeriesOf(SeriesHeader,
             <<<<Zero, Zero, Blank, Blank>>,
               <<<<"1", "0", "1", "0">>, <<"1", "0", "1">>, Active, Blank>>,
               <<<<"1", "0", "1", "0">>, <<"1", "0", "5">>, Active, Blank>>,
               <<<<"1", "0", "4", "0">>, <<"1", "3", "1">>, Active, Blank>>>>)

\* one sample at 1020 ms, no flag active
SeriesD ==
    SeriesOf(SeriesHeader,
             <<<<Zero, Zero, Blank, Blank>>,
               <<<<"1", "0", "2", "0">>, <<"5", "1">>, <<"y">>, Blank>>>>)

\* a CSV without the named columns
SeriesNoColumns ==
    SeriesOf(<<"t", "n">>, <<<<Zero, Zero>>, <<<<"1", "0", "0", "0">>, <<"5">>>>>>)

\* a CSV without the executed_count column
SeriesNoCount ==
    SeriesOf(<<"elapsed_time_ms", "Tracking">>,
             <<<<Zero, Blank>>, <<<<"1", "0", "0", "0">>, Active>>>>)

\* a CSV whose second row is cut short
SeriesShortRow ==
    SeriesOf(SeriesHeader,
             <<<<Zero, Zero, Blank, Blank>>, <<<<"1", "0", "0", "0">>, <<"5">>>>>>)

\* a CSV with a header line only
SeriesNoRows == SeriesOf(SeriesHeader, <<>>)

SeriesUnreadable == [readable |-> FALSE, header |-> <<>>, rows |-> <<>>]

seriesStart ==
    /\ files = <<>> /\ pc = "start" /\ idx = 0
    /\ results = <<>> /\ metadata = <<>>
    /\ grouped_throughput = <<>> /\ grouped_makespan = <<>>
    /\ throughput_out = <<>> /\ makespan_out = <<>> /\ prev_out = None
    /\ config_groups = <<>> /\ fidx = 0 /\ data = None
    /\ time_points = <<>> /\ chart_data = <<>> /\ chart_out = <<>>
    /\ nameIdle
    /\ metricIdle

SeriesInit ==
    /\ input_dir \in Dirs({Rep1, Rep2, OtherPaths, TenWorkers},
                          {SeriesA, SeriesB, SeriesC, SeriesD}, MaxSeriesFiles)
    /\ seriesStart

ErrorInit ==
    /\ input_dir \in Dirs({Rep1, Rep2, OtherPaths, SixFields, WorkersNotNumeric},
                          {SeriesA, SeriesNoColumns, SeriesNoCount, SeriesShortRow,
                           SeriesNoRows, SeriesUnreadable}, MaxErrorFiles)
    /\ seriesStart

SeriesNext ==
    \/ ListDirSeries
    \/ GroupFile
    \/ ProcessFile
    \/ EmitRows
    \/ WriteCharts

SeriesSpec == SeriesInit /\ [][SeriesNext]_vars

ErrorSpec == ErrorInit /\ [][SeriesNext]_vars

\* process_file has just returned data for LastFile
JustProcessed == pc = "configs" /\ idx <= Len(config_groups) /\ fidx > 1

LastFile == input_dir[config_groups[idx].val[fidx - 1].f]

\* the elapsed times (ms) of the rows of a file that yield a sample, in order
RowTime(file, k) == ReadRow(file.header, file.rows[k]).time_ms

RECURSIVE SampleTimes(_, _)
SampleTimes(file, k) ==
    IF k <= 1 THEN <<>>
    ELSE IF RowTime(file, k) > RowTime(file, k - 1)
         THEN Append(SampleTimes(file, k - 1), RowTime(file, k))
         ELSE SampleTimes(file, k - 1)

LastSampleTimes == SampleTimes(LastFile, Len(LastFile.rows))

\* every time point holds the entries of its own bucket
GroupedByBucket ==
    \A k \in DOMAIN time_points :
        \A j \in DOMAIN time_points[k].val :
            time_points[k].val[j].elapsed_s = time_points[k].key

\* C4 as stated: samples taken at 1040 ms and at 1060 ms are both assigned
\* the bucket 1.0 (10 tenths) by process_file.
C4_Original ==
    JustProcessed /\ data.tag = "list" =>
        \A k \in DOMAIN data.entries :
            LastSampleTimes[k] \in {1040, 1060} => data.entries[k].elapsed_s = 10

\* C4 amended: process_file assigns every sample the tenth of a second nearest
\* to its elapsed time: 960 ms and 1040 ms get bucket 1.0, 1060 ms gets
\* bucket 1.1; main collects the entries of one bucket in one time point.
C4_Buckets ==
    /\ GroupedByBucket
    /\ JustProcessed /\ data.tag = "list" =>
          \A k \in DOMAIN data.entries :
              LET t == LastSampleTimes[k]
                  b == data.entries[k].elapsed_s
              IN  /\ 100 * b - 50 <= t /\ t <= 100 * b + 50
                  /\ t \in {960, 1040} => b = 10
                  /\ t = 1060 => b = 11
                  /\ \E p \in DOMAIN time_points :
                        /\ time_points[p].key = b
                        /\ data.entries[k] \in Range(time_points[p].val)

\* C4 witness: the files of one configuration have been read, and its time
\* point 1.0 holds the samples taken at 960 ms and 1040 ms, its time point
\* 1.1 the sample taken at 1060 ms.
C4_Witness ==
    /\ JustProcessed
    /\ fidx = 3
    /\ {input_dir[config_groups[idx].val[k].f] : k \in 1..2} = {SeriesA, SeriesB}
    /\ DictKeys(time_points) = {10, 11, 20}
    /\ Len(DictGet(time_points, 10)) = 2
    /\ Len(DictGet(time_points, 11)) = 1

\* the repetitions of the configuration of a row of chart ck that contribute
\* a sample at the row's time bucket
Contributing(ck, row) ==
    {f \in ListedFiles :
        LET params == tt_parse_filename(f)
            d == process_file(input_dir[f])
        IN  /\ params.tag = "ok"
            /\ params.chart_key = ck
            /\ LineLabel(params) = row.line_label
            /\ d.tag = "list"
            /\ \E k \in DOMAIN d.entries : d.entries[k].elapsed_s = row.elapsed_s}

\* those of them that show the flag active at that bucket
ShowingActive(ck, row, flag) ==
    {f \in Contributing(ck, row) :
        LET d == process_file(input_dir[f])
        IN  \E k \in DOMAIN d.entries :
                d.entries[k].elapsed_s = row.elapsed_s /\ d.entries[k][flag] = 1}

\* C5: in every output row, tracking_prob (repartitioning_prob) is the number
\* of repetitions that show the flag active at the row's bucket divided by
\* the number of repetitions that contribute a sample at that bucket.
C5_FlagProbability ==
    pc = "done" =>
        \A ck \in DOMAIN chart_out : \A k \in DOMAIN chart_out[ck] :
            LET row == chart_out[ck][k]
                n == Cardinality(Contributing(ck, row))
            IN  /\ row.tracking_prob
                       = Frac(Cardinality(ShowingActive(ck, row, "tracking")), n)
                /\ row.repartitioning_prob
                       = Frac(Cardinality(ShowingActive(ck, row, "repartitioning")), n)

Increasing(rows) ==
    \A i, j \in DOMAIN rows : i < j => rows[i].elapsed_s < rows[j].elapsed_s

\* C9 as stated: in every output file the rows appear in non-decreasing
\* order of elapsed_s over the whole file.
C9_Original ==
    \A ck \in DOMAIN chart_out :
        \A i, j \in DOMAIN chart_out[ck] :
            i < j => chart_out[ck][i].elapsed_s <= chart_out[ck][j].elapsed_s

RowsOf(chart, ck) == IF ck \in DictKeys(chart) THEN DictGet(chart, ck) ELSE <<>>

BlockAppended ==
    /\ \A ck \in DictKeys(chart_data') :
          LET old == RowsOf(chart_data, ck)
              new == RowsOf(chart_data', ck)
              block == SubSeq(new, Len(old) + 1, Len(new))
          IN  /\ Len(old) <= Len(new)
              /\ SubSeq(new, 1, Len(old)) = old
              /\ Increasing(block)
              /\ \A k \in DOMAIN block : block[k].line_label = block[1].line_label
    /\ DictKeys(chart_data) \subseteq DictKeys(chart_data')
    /\ chart_out' # chart_out =>
          /\ DOMAIN chart_out' = DictKeys(chart_data)
          /\ \A ck \in DOMAIN chart_out' : chart_out'[ck] = DictGet(chart_data, ck)

\* C9 amended: a chart only grows, by one block of rows per Configuration
\* Key appended when that key has been processed; the rows of a block share
\* the key's line label and appear in increasing order of elapsed_s; every
\* output file holds exactly the rows of its chart, block after block.
C9_Blocks == [][BlockAppended]_vars

\* C9 witness: an output file holds the block of one configuration followed
\* by the block of another that starts at an earlier elapsed_s.
C9_Witness ==
    /\ pc = "done"
    /\ \E ck \in DOMAIN chart_out :
          LET rows == chart_out[ck]
          IN  /\ Len(rows) = 4
              /\ rows[1].elapsed_s < rows[2].elapsed_s
              /\ rows[3].elapsed_s < rows[2].elapsed_s
              /\ rows[3].elapsed_s < rows[4].elapsed_s
              /\ rows[2].line_label # rows[3].line_label

\* the name has the '(rep)' suffix and 7 fields, one of the integer fields
\* (workers, partitions, paths, interval) not numeric
NonNumericField(f) ==
    /\ ~SkippableName(f)
    /\ LET parts == Split2(SubSeq(RSplitDot(f), 1, RepMatchStart(RSplitDot(f)) - 1),
                           "_", "_")
       IN  \E k \in {2, 4, 6, 7} : ~DigitGroups(parts[k])

\* the CSV has data rows and lacks a named column
LacksColumns(file) ==
    /\ file.readable
    /\ file.rows # <<>>
    /\ \E c \in {"elapsed_time_ms", "executed_count"} :
          \A k \in DOMAIN file.header : file.header[k] # c

\* no file after position k of the listing has been grouped or read
NothingAfter(k) ==
    /\ \A g \in DOMAIN config_groups : \A j \in DOMAIN config_groups[g].val :
          \E i \in 1..(k - 1) : files[i] = config_groups[g].val[j].f
    /\ data = None /\ time_points = <<>> /\ chart_data = <<>> /\ chart_out = <<>>

\* a name with a non-numeric integer field terminates the run when it is
\* decoded, and no later file is processed
NameErrorTerminates ==
    /\ pc = "group" => \A k \in 1..(idx - 1) : ~NonNumericField(files[k])
    /\ pc \in {"configs", "done"} => \A k \in DOMAIN files : ~NonNumericField(files[k])
    /\ pc = "crashed" => NonNumericField(files[idx]) /\ NothingAfter(idx)

\* C10 as stated: the non-numeric name terminates the run, and so does, in
\* time-series mode, a CSV that lacks elapsed_time_ms or executed_count.
C10_Original ==
    /\ NameErrorTerminates
    /\ JustProcessed /\ LacksColumns(LastFile) => pc = "crashed"

\* C10 amended: the non-numeric name terminates the run; a CSV that lacks a
\* named column raises inside process_file, which returns None: the file is
\* skipped, adds no time point, and the run continues.
C10_Errors ==
    /\ NameErrorTerminates
    /\ JustProcessed /\ LacksColumns(LastFile) => data = None /\ pc = "configs"
    /\ pc = "done" =>
          \A ck \in DOMAIN chart_out : \A k \in DOMAIN chart_out[ck] :
              \E f \in Contributing(ck, chart_out[ck][k]) : ~LacksColumns(input_dir[f])

\* C10 witness: the run has terminated at a name whose workers field is not
\* numeric, after it had grouped a file before it.
C10_Witness ==
    /\ pc = "crashed"
    /\ idx = 2
    /\ files[2] = WorkersNotNumeric
    /\ Len(config_groups) = 1

====
